---- MODULE Spec2Model ----
(***************************************************************************)
(* A model of scripts/jetski_tracker_integration.py: the five source       *)
(* fetchers of JetskiTrackerClient, calculate_withholding_score, fetch_all *)
(* and the two modes of main (single shot and watch loop) with the file    *)
(* they write.                                                             *)
(*                                                                         *)
(* Numbers are fixed point, so that the float arithmetic of the source is  *)
(* exact on the inputs used here:                                          *)
(*   hashrates and prices  in hundredths        (4.97 GH/s  = 497)         *)
(*   pool shares           in hundredths        (0.45       = 45)          *)
(*   scores                in ten-thousandths   (0.8619     = 8619)        *)
(*   qubic_hashrate        in ten-thousandths   (hashrate * share)         *)
(***************************************************************************)
EXTENDS Integers, Sequences, FiniteSets, TLC

VARIABLES
    scope,             \* which answers the remote endpoints may give in this run
    seed,              \* JetskiTrackerClient.seed (args.seed)
    watch,             \* args.watch
    haskell,           \* args.haskell
    pc,                \* the statement main / fetch_all is at
    tick,              \* number of the watch iteration (also the clock of time.time())
    network_hashrate,  \* locals of fetch_all
    pool_distribution,
    orphaned_blocks,
    last_reorg_depth,
    xmr_price,
    calls,             \* network calls made by the running fetch_all
    last,              \* the most recent network call: source, outcome, field present,
                       \* and whether it and every call of this fetch_all before it failed
    data,              \* main's local: the snapshot fetch_all returned
    tier,              \* the threat line the watch display printed for data
    file,              \* content of args.output on disk, a sequence of chunks
    buf,               \* chunks written to the open file object, not yet on disk
    exc,               \* the exception that left main, "none" while there is none
    saved,             \* the "Data saved" line was printed
    result,            \* return value of a direct calculate_withholding_score call
    steps,             \* the steps main has completed, in order, each with the
                       \* timestamp of the snapshot it handled
    memo               \* the direct calculate_withholding_score calls made so far:
                       \* seed, arguments and return value of each

vars == << scope, seed, watch, haskell, pc, tick, network_hashrate,
           pool_distribution, orphaned_blocks, last_reorg_depth, xmr_price,
           calls, last, data, tier, file, buf, exc, saved, result, steps,
           memo >>

-----------------------------------------------------------------------------
(* Bounds of the model *)

MaxPools == 2     \* longest pool list a remote answer carries
MaxReorgs == 2    \* longest reorg list a remote answer carries
MaxTicks == 2     \* watch iterations that run to their end
MaxCalls == 3     \* direct calls of calculate_withholding_score on one client

(* Fixed-point scales and the constants of the source *)

ScoreScale == 10000
DEFAULT_HASHRATE == 497
DEFAULT_PRICE == 16700
DEFAULT_SEED == 1069

Min(a, b) == IF a <= b THEN a ELSE b
Max(a, b) == IF a >= b THEN a ELSE b

RECURSIVE MaxOf(_)
MaxOf(s) == IF Len(s) = 1 THEN s[1] ELSE Max(s[1], MaxOf(Tail(s)))

SeqsUpTo(S, n) == UNION { [1..k -> S] : k \in 0..n }

(* Default distribution (post-Qubic attack baseline) *)
BASELINE ==
    << [name |-> "Qubic",      share |-> 15],
       [name |-> "MineXMR",    share |-> 20],
       [name |-> "SupportXMR", share |-> 18],
       [name |-> "Hashvault",  share |-> 12],
       [name |-> "Others",     share |-> 35] >>

-----------------------------------------------------------------------------
(* calculate_withholding_score, in ten-thousandths.  It raises ValueError  *)
(* (max of an empty sequence) on an empty pool_dist: CanScore is false.    *)

Shares(pool_dist) == [i \in 1..Len(pool_dist) |-> pool_dist[i].share]

CanScore(pool_dist) == Len(pool_dist) > 0

\* the orphan component without its min(..., 1.0)
orphan_score_unsaturated(orphaned) == (orphaned * ScoreScale) \div 20

orphan_score(orphaned) == Min((orphaned * ScoreScale) \div 20, ScoreScale)

\* the concentration risk starting at 40%, as the docstring has it
concentration_from_40(pool_dist) ==
    Max(0, ((MaxOf(Shares(pool_dist)) - 40) * ScoreScale) \div 20)

concentration_score(pool_dist) ==
    Max(0, ((MaxOf(Shares(pool_dist)) - 30) * ScoreScale) \div 20)

combined(orphaned, pool_dist) ==
    (orphan_score(orphaned) * 7 + concentration_score(pool_dist) * 3) \div 10

seed_offset(sd) == sd % 100

\* the score without its final min(..., 1.0)
score_unclamped(sd, orphaned, pool_dist) ==
    combined(orphaned, pool_dist) + seed_offset(sd)

calculate_withholding_score(sd, orphaned, pool_dist) ==
    Min(combined(orphaned, pool_dist) + seed_offset(sd), ScoreScale)

\* the threat assessment with its first threshold at 0.9
ThreatTierCriticalAt90(score) ==
    IF score * 10 > 9 * ScoreScale THEN "CRITICAL"
    ELSE IF score * 10 > 6 * ScoreScale THEN "HIGH"
    ELSE IF score * 10 > 3 * ScoreScale THEN "MODERATE"
    ELSE "LOW"

\* the threat assessment with >= in place of >
ThreatTierInclusive(score) ==
    IF score * 100 >= 85 * ScoreScale THEN "CRITICAL"
    ELSE IF score * 10 >= 6 * ScoreScale THEN "HIGH"
    ELSE IF score * 10 >= 3 * ScoreScale THEN "MODERATE"
    ELSE "LOW"

(* Threat assessment of the watch display, lines 229-236 *)
ThreatTier(score) ==
    IF score * 100 > 85 * ScoreScale THEN "CRITICAL"
    ELSE IF score * 10 > 6 * ScoreScale THEN "HIGH"
    ELSE IF score * 10 > 3 * ScoreScale THEN "MODERATE"
    ELSE "LOW"

-----------------------------------------------------------------------------
(* What the remote side may answer.  A response is the outcome of one      *)
(* session.get: an exception of requests (timeout, transport_error), a     *)
(* status other than 200 (non200), a 200 whose body json() rejects         *)
(* (malformed), a KeyboardInterrupt delivered during the call (interrupt), *)
(* or a 200 with a JSON object (ok) in which the expected field is present *)
(* (has, with value v) or absent.                                          *)

FailKinds == {"timeout", "transport_error", "non200", "malformed"}

Responses(values, none) ==
    [kind : FailKinds \cup {"interrupt", "ok"}, has : {FALSE}, v : {none}]
        \cup [kind : {"ok"}, has : {TRUE}, v : values]

HashrateValues(s) == IF s = "fetch" THEN {-100, 0, 600} ELSE {0, 600}

OrphanValues(s) == IF s = "fetch" THEN {-5, 18, 25} ELSE {18}

PoolEntries(s) ==
    IF s = "fetch"
    THEN { [name |-> "Qubic",     share |-> 45],
           [name |-> "QubicPool", share |-> 10],
           [name |-> "qubic",     share |-> 100],
           [name |-> "MineXMR",   share |-> 25] }
    ELSE IF s = "score"
    THEN { [name |-> "Solo", share |-> sh] : sh \in {-10, 20, 40, 45, 50, 100} }
    ELSE { [name |-> "Qubic",     share |-> 45] }

ScoreOrphans == {-5, 0, 10, 17, 18, 19, 20, 21, 40}

ScoreSeeds == {-101, -1, 0, 50, 100, DEFAULT_SEED}

ReorgDepths(s) == IF s = "fetch" THEN {-2, 3} ELSE {3}

PriceValues(s) == IF s = "fetch" THEN {-100, 15000} ELSE {15000}

-----------------------------------------------------------------------------
(* The return value of each fetch method, given the response to its call *)

\* lines 72-74: the value fetch_network_hashrate returns from its first try
primary_hashrate(r) == IF r.has THEN r.v ELSE DEFAULT_HASHRATE

\* lines 72-76: the first try returns (200 and a JSON object); otherwise the
\* method goes on to the fallback.  KeyboardInterrupt is no Exception.
primary_returns(r) == r.kind = "ok"

primary_propagates(r) == r.kind = "interrupt"

\* the fallback with its placeholder replaced by a value parsed from the page
fallback_hashrate_parsed(r) == IF r.kind = "ok" THEN 0 ELSE DEFAULT_HASHRATE

\* lines 79-87: whatever FALLBACK_URL answers, and whatever is raised
fallback_hashrate(r) == DEFAULT_HASHRATE

fetch_orphaned_blocks(r) ==
    IF r.kind = "ok" THEN (IF r.has THEN r.v ELSE 0) ELSE 0

fetch_pool_distribution(r) ==
    IF r.kind = "ok" THEN (IF r.has THEN r.v ELSE << >>) ELSE BASELINE

\* fetch_xmr_price with 0 as its last resort, like the two counts
fetch_xmr_price_default0(r) ==
    IF r.kind = "ok" /\ r.has THEN r.v ELSE 0

fetch_xmr_price(r) ==
    IF r.kind = "ok" /\ r.has THEN r.v ELSE DEFAULT_PRICE

fetch_latest_reorg(r) ==
    IF r.kind = "ok"
    THEN (IF r.has /\ Len(r.v) > 0 THEN MaxOf(r.v) ELSE 0)
    ELSE 0

\* the match made case-insensitive
ContainsQubicAnyCase(name) == name \in {"Qubic", "QubicPool", "qubic"}

\* "Qubic" in name, over the names of this model
ContainsQubic(name) == name \in {"Qubic", "QubicPool"}

RECURSIVE qubic_share(_)
qubic_share(pool_dist) ==
    IF Len(pool_dist) = 0 THEN 0
    ELSE IF ContainsQubic(pool_dist[1].name) THEN pool_dist[1].share
    ELSE qubic_share(Tail(pool_dist))

JetskiTrackerData(nh, pd, ob, rd, price, sd, now) ==
    [ network_hashrate        |-> nh,
      qubic_hashrate          |-> nh * qubic_share(pd),
      orphaned_blocks         |-> ob,
      block_withholding_score |-> calculate_withholding_score(sd, ob, pd),
      pool_distribution       |-> pd,
      last_reorg_depth        |-> rd,
      timestamp               |-> now,
      xmr_price               |-> price ]

-----------------------------------------------------------------------------
(* Serialization: the chunks that reach the file object, in order *)

PoolPairs(pd) == [i \in 1..Len(pd) |-> << pd[i].name, pd[i].share >>]

\* json.dump(asdict(data), f, indent=2): one chunk per field, in field order
JsonChunks(d) ==
    << [key |-> "network_hashrate",        val |-> d.network_hashrate],
       [key |-> "qubic_hashrate",          val |-> d.qubic_hashrate],
       [key |-> "orphaned_blocks",         val |-> d.orphaned_blocks],
       [key |-> "block_withholding_score", val |-> d.block_withholding_score],
       [key |-> "pool_distribution",       val |-> PoolPairs(d.pool_distribution)],
       [key |-> "last_reorg_depth",        val |-> d.last_reorg_depth],
       [key |-> "timestamp",               val |-> d.timestamp],
       [key |-> "xmr_price",               val |-> d.xmr_price] >>

\* f.write(data.to_haskell_format()): the whole record in one write
to_haskell_format(d) ==
    << [key |-> "JetskiTrackerData",
        val |-> << d.network_hashrate, d.qubic_hashrate, d.orphaned_blocks,
                   d.block_withholding_score, PoolPairs(d.pool_distribution),
                   d.last_reorg_depth, d.timestamp, d.xmr_price >>] >>

Serialize(d, hs) == IF hs THEN to_haskell_format(d) ELSE JsonChunks(d)

Keys(f) == [i \in 1..Len(f) |-> f[i].key]

\* the timestamp field of a complete file
FileStamp(f, hs) == IF hs THEN f[1].val[7] ELSE f[7].val

-----------------------------------------------------------------------------
(* Initial states *)

NoCall == [src |-> "none", kind |-> "none", has |-> FALSE, all_failed |-> FALSE]

NoData == JetskiTrackerData(0, BASELINE, 0, 0, 0, 0, 0)

\* what an earlier run with every source down left at args.output
EarlierRun ==
    JetskiTrackerData(DEFAULT_HASHRATE, BASELINE, 0, 0, DEFAULT_PRICE, DEFAULT_SEED, 0)

\* f holds every field of one snapshot, in order, in the format hs
CompleteFile(f, hs) == Keys(f) = Keys(Serialize(EarlierRun, hs))

FreshFrame ==
    /\ network_hashrate' = 0
    /\ pool_distribution' = << >>
    /\ orphaned_blocks' = 0
    /\ last_reorg_depth' = 0
    /\ xmr_price' = 0
    /\ calls' = 0
    /\ last' = NoCall

Init ==
    /\ scope = "main"
    /\ seed = DEFAULT_SEED
    /\ watch \in BOOLEAN
    /\ haskell \in BOOLEAN
    /\ pc = "fetch_network_hashrate"
    /\ tick = 1
    /\ network_hashrate = 0
    /\ pool_distribution = << >>
    /\ orphaned_blocks = 0
    /\ last_reorg_depth = 0
    /\ xmr_price = 0
    /\ calls = 0
    /\ last = NoCall
    /\ data = NoData
    /\ tier = "none"
    /\ file = Serialize(EarlierRun, haskell)
    /\ buf = << >>
    /\ exc = "none"
    /\ saved = FALSE
    /\ result = 0
    /\ steps = << >>
    /\ memo = << >>
-----------------------------------------------------------------------------
(* Exceptions.  An exception that reaches main ends it: the watch loop     *)
(* handles KeyboardInterrupt alone (line 246), the single-shot branch      *)
(* handles nothing.  The frame of fetch_all is gone either way.            *)

Raise(e) ==
    /\ pc' = IF watch /\ e = "KeyboardInterrupt" THEN "stopped" ELSE "raised"
    /\ exc' = IF watch /\ e = "KeyboardInterrupt" THEN "none" ELSE e

Call(src, r) ==
    /\ calls' = calls + 1
    /\ last' = [src |-> src, kind |-> r.kind, has |-> r.has,
                 all_failed |-> (calls = 0 \/ last.all_failed)
                                    /\ r.kind \in FailKinds]

-----------------------------------------------------------------------------
(* fetch_all, one action per network call, in the order of lines 168-172 *)

\* line 168, lines 69-76: the call to BASE_URL/api/network/hashrate
FetchNetworkHashrate ==
    /\ pc = "fetch_network_hashrate"
    /\ \E r \in Responses(HashrateValues(scope), 0) :
        /\ Call("network_hashrate", r)
        /\ IF primary_returns(r)
           THEN /\ network_hashrate' = primary_hashrate(r)
                /\ pc' = "fetch_pool_distribution"
                /\ UNCHANGED exc
           ELSE IF primary_propagates(r)
           THEN /\ Raise("KeyboardInterrupt")
                /\ UNCHANGED network_hashrate
           ELSE /\ pc' = "fetch_network_hashrate_fallback"
                /\ UNCHANGED << network_hashrate, exc >>
    /\ UNCHANGED << steps, memo, scope, seed, watch, haskell, tick, pool_distribution,
                    orphaned_blocks, last_reorg_depth, xmr_price, data, tier,
                    file, buf, saved, result >>

\* the fallback call tried again after a failure, up to three calls in all
FetchNetworkHashrateFallbackRetry ==
    /\ pc = "fetch_network_hashrate_fallback"
    /\ \E r \in Responses({}, 0) :
        /\ Call("network_hashrate_fallback", r)
        /\ network_hashrate' = fallback_hashrate(r)
        /\ pc' = IF r.kind \in FailKinds /\ calls < 3
                 THEN "fetch_network_hashrate_fallback"
                 ELSE "fetch_pool_distribution"
    /\ UNCHANGED << steps, memo, scope, seed, watch, haskell, tick, pool_distribution,
                    orphaned_blocks, last_reorg_depth, xmr_price, data, tier,
                    file, buf, exc, saved, result >>

\* lines 78-87: the call to FALLBACK_URL; the bare except swallows everything
FetchNetworkHashrateFallback ==
    /\ pc = "fetch_network_hashrate_fallback"
    /\ \E r \in Responses({}, 0) :
        /\ Call("network_hashrate_fallback", r)
        /\ network_hashrate' = fallback_hashrate(r)
    /\ pc' = "fetch_pool_distribution"
    /\ UNCHANGED << steps, memo, scope, seed, watch, haskell, tick, pool_distribution,
                    orphaned_blocks, last_reorg_depth, xmr_price, data, tier,
                    file, buf, exc, saved, result >>

\* line 169, lines 100-117
FetchPoolDistribution ==
    /\ pc = "fetch_pool_distribution"
    /\ \E r \in Responses(SeqsUpTo(PoolEntries(scope), MaxPools), << >>) :
        /\ Call("pool_distribution", r)
        /\ pool_distribution' = fetch_pool_distribution(r)
    /\ pc' = "fetch_orphaned_blocks"
    /\ UNCHANGED << steps, memo, scope, seed, watch, haskell, tick, network_hashrate,
                    orphaned_blocks, last_reorg_depth, xmr_price, data, tier,
                    file, buf, exc, saved, result >>

\* line 170, lines 89-98
FetchOrphanedBlocks ==
    /\ pc = "fetch_orphaned_blocks"
    /\ \E r \in Responses(OrphanValues(scope), 0) :
        /\ Call("orphaned_blocks", r)
        /\ orphaned_blocks' = fetch_orphaned_blocks(r)
    /\ pc' = "fetch_latest_reorg"
    /\ UNCHANGED << steps, memo, scope, seed, watch, haskell, tick, network_hashrate,
                    pool_distribution, last_reorg_depth, xmr_price, data, tier,
                    file, buf, exc, saved, result >>

\* line 171, lines 152-162
FetchLatestReorg ==
    /\ pc = "fetch_latest_reorg"
    /\ \E r \in Responses(SeqsUpTo(ReorgDepths(scope), MaxReorgs), << >>) :
        /\ Call("latest_reorg", r)
        /\ last_reorg_depth' = fetch_latest_reorg(r)
    /\ pc' = "fetch_xmr_price"
    /\ UNCHANGED << steps, memo, scope, seed, watch, haskell, tick, network_hashrate,
                    pool_distribution, orphaned_blocks, xmr_price, data, tier,
                    file, buf, exc, saved, result >>

\* line 172, lines 119-128
FetchXmrPrice ==
    /\ pc = "fetch_xmr_price"
    /\ \E r \in Responses(PriceValues(scope), 0) :
        /\ Call("xmr_price", r)
        /\ xmr_price' = fetch_xmr_price(r)
    /\ pc' = "build"
    /\ UNCHANGED << steps, memo, scope, seed, watch, haskell, tick, network_hashrate,
                    pool_distribution, orphaned_blocks, last_reorg_depth, data,
                    tier, file, buf, exc, saved, result >>

\* lines 174-193: derive, score, construct and return the snapshot.  The
\* score raises ValueError on an empty pool distribution, which no one catches.
BuildSnapshot ==
    /\ pc = "build"
    /\ IF CanScore(pool_distribution)
       THEN /\ data' = JetskiTrackerData(network_hashrate, pool_distribution,
                                         orphaned_blocks, last_reorg_depth,
                                         xmr_price, seed, tick)
            /\ pc' = "display"
            /\ steps' = Append(steps, [step |-> "build", stamp |-> tick])
            /\ UNCHANGED exc
       ELSE /\ Raise("ValueError")
            /\ UNCHANGED << data, steps >>
    /\ network_hashrate' = 0
    /\ pool_distribution' = << >>
    /\ orphaned_blocks' = 0
    /\ last_reorg_depth' = 0
    /\ xmr_price' = 0
    /\ UNCHANGED << memo, scope, seed, watch, haskell, tick, calls, last, tier,
                    file, buf, saved, result >>

FetchNext ==
    \/ FetchNetworkHashrate
    \/ FetchNetworkHashrateFallback
    \/ FetchPoolDistribution
    \/ FetchOrphanedBlocks
    \/ FetchLatestReorg
    \/ FetchXmrPrice
    \/ BuildSnapshot
-----------------------------------------------------------------------------
(* main: display, save, and the watch loop *)

\* lines 221-236 (watch) and 253-262 (single shot).  The watch display
\* divides by data.network_hashrate before it prints the threat line.
Display ==
    /\ pc = "display"
    /\ IF watch /\ data.network_hashrate = 0
       THEN /\ Raise("ZeroDivisionError")
            /\ UNCHANGED << tier, steps >>
       ELSE /\ pc' = "open"
            /\ steps' = Append(steps, [step |-> "display", stamp |-> data.timestamp])
            /\ tier' = IF watch THEN ThreatTier(data.block_withholding_score)
                                ELSE tier
            /\ UNCHANGED exc
    /\ UNCHANGED << memo, scope, seed, watch, haskell, tick, network_hashrate,
                    pool_distribution, orphaned_blocks, last_reorg_depth,
                    xmr_price, calls, last, data, file, buf, saved, result >>

\* the save wrapped in a try that passes over OSError
OpenFailureIgnored ==
    /\ pc = "open"
    /\ \/ /\ file' = << >>
          /\ buf' = << >>
          /\ pc' = "write"
       \/ /\ pc' = IF watch THEN "sleep" ELSE "report"
          /\ UNCHANGED << file, buf >>
    /\ UNCHANGED << steps, memo, scope, seed, watch, haskell, tick, network_hashrate,
                    pool_distribution, orphaned_blocks, last_reorg_depth,
                    xmr_price, calls, last, data, tier, exc, saved, result >>

\* lines 239 and 265: open(args.output, 'w') truncates the file, or raises
Open ==
    /\ pc = "open"
    /\ \/ /\ file' = << >>
          /\ buf' = << >>
          /\ pc' = "write"
          /\ UNCHANGED exc
       \/ /\ Raise("OSError")
          /\ UNCHANGED << file, buf >>
    /\ UNCHANGED << steps, memo, scope, seed, watch, haskell, tick, network_hashrate,
                    pool_distribution, orphaned_blocks, last_reorg_depth,
                    xmr_price, calls, last, data, tier, saved, result >>

Written == Len(file) + Len(buf)

\* lines 240-243 and 266-269: the next chunk goes to the file object, which
\* keeps it in its buffer or, the buffer being full, puts all of it on disk
WriteChunk ==
    /\ pc = "write"
    /\ Written < Len(Serialize(data, haskell))
    /\ LET chunk == Serialize(data, haskell)[Written + 1]
       IN  \/ /\ buf' = Append(buf, chunk)
              /\ UNCHANGED file
           \/ /\ file' = file \o Append(buf, chunk)
              /\ buf' = << >>
    /\ UNCHANGED << steps, memo, scope, seed, watch, haskell, pc, tick, network_hashrate,
                    pool_distribution, orphaned_blocks, last_reorg_depth,
                    xmr_price, calls, last, data, tier, exc, saved, result >>

\* a write or the final flush raises OSError: the with statement closes the
\* file, whose buffer reaches the disk or does not, and the error leaves main
WriteFail ==
    /\ pc = "write"
    /\ \/ file' = file \o buf
       \/ UNCHANGED file
    /\ buf' = << >>
    /\ Raise("OSError")
    /\ UNCHANGED << steps, memo, scope, seed, watch, haskell, tick, network_hashrate,
                    pool_distribution, orphaned_blocks, last_reorg_depth,
                    xmr_price, calls, last, data, tier, saved, result >>

\* the watch loop going on to its next iteration without the sleep
CloseAndContinue ==
    /\ pc = "write"
    /\ Written = Len(Serialize(data, haskell))
    /\ file' = file \o buf
    /\ buf' = << >>
    /\ steps' = Append(steps, [step |-> "persist", stamp |-> FileStamp(file', haskell)])
    /\ IF watch /\ tick < MaxTicks
       THEN /\ tick' = tick + 1
            /\ pc' = "fetch_network_hashrate"
            /\ FreshFrame
       ELSE /\ pc' = IF watch THEN "sleep" ELSE "report"
            /\ UNCHANGED << tick, network_hashrate, pool_distribution,
                            orphaned_blocks, last_reorg_depth, xmr_price,
                            calls, last >>
    /\ UNCHANGED << memo, scope, seed, watch, haskell, data, tier, exc, saved, result >>

\* the end of the with statement: the file is closed, its buffer flushed
Close ==
    /\ pc = "write"
    /\ Written = Len(Serialize(data, haskell))
    /\ file' = file \o buf
    /\ buf' = << >>
    /\ steps' = Append(steps, [step |-> "persist", stamp |-> FileStamp(file', haskell)])
    /\ pc' = IF watch THEN "sleep" ELSE "report"
    /\ UNCHANGED << memo, scope, seed, watch, haskell, tick, network_hashrate,
                    pool_distribution, orphaned_blocks, last_reorg_depth,
                    xmr_price, calls, last, data, tier, exc, saved, result >>

\* line 271
Report ==
    /\ pc = "report"
    /\ saved' = TRUE
    /\ pc' = "exit"
    /\ UNCHANGED << steps, memo, scope, seed, watch, haskell, tick, network_hashrate,
                    pool_distribution, orphaned_blocks, last_reorg_depth,
                    xmr_price, calls, last, data, tier, file, buf, exc, result >>

\* line 245, then line 217-218: the sleep ends and the next iteration begins
Sleep ==
    /\ pc = "sleep"
    /\ tick < MaxTicks
    /\ tick' = tick + 1
    /\ steps' = Append(steps, [step |-> "sleep", stamp |-> tick])
    /\ pc' = "fetch_network_hashrate"
    /\ FreshFrame
    /\ UNCHANGED << memo, scope, seed, watch, haskell, data, tier, file, buf, exc,
                    saved, result >>

\* KeyboardInterrupt delivered while main is at a statement that is no
\* network call (those are the "interrupt" responses).  Inside the with
\* statement the file is closed, and its buffer flushed, on the way out.
Interrupt ==
    /\ pc \in {"build", "display", "open", "write", "sleep", "report"}
    /\ file' = IF pc = "write" THEN file \o buf ELSE file
    /\ buf' = << >>
    /\ Raise("KeyboardInterrupt")
    /\ UNCHANGED << steps, memo, scope, seed, watch, haskell, tick, network_hashrate,
                    pool_distribution, orphaned_blocks, last_reorg_depth,
                    xmr_price, calls, last, data, tier, saved, result >>

Next ==
    \/ FetchNetworkHashrate
    \/ FetchNetworkHashrateFallback
    \/ FetchPoolDistribution
    \/ FetchOrphanedBlocks
    \/ FetchLatestReorg
    \/ FetchXmrPrice
    \/ BuildSnapshot
    \/ Display
    \/ Open
    \/ WriteChunk
    \/ WriteFail
    \/ Close
    \/ Report
    \/ Sleep
    \/ Interrupt

Spec == Init /\ [][Next]_vars

-----------------------------------------------------------------------------
(* fetch_all alone, called once, against every answer of the remote side *)

FetchInit ==
    /\ scope = "fetch"
    /\ seed \in {-1, DEFAULT_SEED}
    /\ watch = FALSE
    /\ haskell = FALSE
    /\ pc = "fetch_network_hashrate"
    /\ tick = 1
    /\ network_hashrate = 0
    /\ pool_distribution = << >>
    /\ orphaned_blocks = 0
    /\ last_reorg_depth = 0
    /\ xmr_price = 0
    /\ calls = 0
    /\ last = NoCall
    /\ data = NoData
    /\ tier = "none"
    /\ file = Serialize(EarlierRun, haskell)
    /\ buf = << >>
    /\ exc = "none"
    /\ saved = FALSE
    /\ result = 0
    /\ steps = << >>
    /\ memo = << >>

FetchSpec == FetchInit /\ [][FetchNext]_vars

-----------------------------------------------------------------------------
(* calculate_withholding_score alone: a client with some seed is asked for *)
(* the score of some orphan count and pool distribution, and the threat    *)
(* assessment of lines 229-236 is applied to what it returns.              *)

ScoreInit ==
    /\ scope = "score"
    /\ seed \in ScoreSeeds
    /\ watch = FALSE
    /\ haskell = FALSE
    /\ pc = "score_call"
    /\ tick = 1
    /\ network_hashrate = 0
    /\ pool_distribution \in SeqsUpTo(PoolEntries("score"), MaxPools)
    /\ orphaned_blocks \in ScoreOrphans
    /\ last_reorg_depth = 0
    /\ xmr_price = 0
    /\ calls = 0
    /\ last = NoCall
    /\ data = NoData
    /\ tier = "none"
    /\ file = Serialize(EarlierRun, haskell)
    /\ buf = << >>
    /\ exc = "none"
    /\ saved = FALSE
    /\ result = 0
    /\ steps = << >>
    /\ memo = << >>

ScoreRecord(sd, orphaned, pool_dist, res) ==
    [seed |-> sd, orphaned |-> orphaned, pool_dist |-> pool_dist, result |-> res]

\* a call that advances the client's seed for the next call
ScoreCallReseeding ==
    /\ pc = "score_call"
    /\ IF CanScore(pool_distribution)
       THEN /\ result' = calculate_withholding_score(seed, orphaned_blocks,
                                                     pool_distribution)
            /\ memo' = Append(memo, ScoreRecord(seed, orphaned_blocks,
                                                pool_distribution, result'))
            /\ seed' = seed + 1
            /\ pc' = "score_returned"
            /\ UNCHANGED exc
       ELSE /\ Raise("ValueError")
            /\ UNCHANGED << result, memo, seed >>
    /\ UNCHANGED << steps, scope, watch, haskell, tick, network_hashrate,
                    pool_distribution, orphaned_blocks, last_reorg_depth,
                    xmr_price, calls, last, data, tier, file, buf, saved >>

ScoreCall ==
    /\ pc = "score_call"
    /\ IF CanScore(pool_distribution)
       THEN /\ result' = calculate_withholding_score(seed, orphaned_blocks,
                                                     pool_distribution)
            /\ memo' = Append(memo, ScoreRecord(seed, orphaned_blocks,
                                                pool_distribution, result'))
            /\ pc' = "score_returned"
            /\ UNCHANGED exc
       ELSE /\ Raise("ValueError")
            /\ UNCHANGED << result, memo >>
    /\ UNCHANGED << steps, scope, seed, watch, haskell, tick, network_hashrate,
                    pool_distribution, orphaned_blocks, last_reorg_depth,
                    xmr_price, calls, last, data, tier, file, buf, saved >>

ThreatAssessment ==
    /\ pc = "score_returned"
    /\ tier' = ThreatTier(result)
    /\ pc' = "score_shown"
    /\ UNCHANGED << steps, memo, scope, seed, watch, haskell, tick, network_hashrate,
                    pool_distribution, orphaned_blocks, last_reorg_depth,
                    xmr_price, calls, last, data, file, buf, exc, saved, result >>

\* the caller comes back to the same client with the arguments of its first
\* call, or with those of a full outage (no orphans, the baseline)
ScoreAgain ==
    /\ pc = "score_shown"
    /\ Len(memo) < MaxCalls
    /\ \/ /\ orphaned_blocks' = memo[1].orphaned
          /\ pool_distribution' = memo[1].pool_dist
       \/ /\ orphaned_blocks' = 0
          /\ pool_distribution' = BASELINE
    /\ pc' = "score_call"
    /\ UNCHANGED << steps, memo, scope, seed, watch, haskell, tick,
                    network_hashrate, last_reorg_depth, xmr_price, calls, last,
                    data, tier, file, buf, exc, saved, result >>

ScoreNext == ScoreCall \/ ThreatAssessment \/ ScoreAgain

ScoreSpec == ScoreInit /\ [][ScoreNext]_vars
-----------------------------------------------------------------------------
(* The claims *)

InFetchAllAfterPools ==
    pc \in {"fetch_orphaned_blocks", "fetch_latest_reorg", "fetch_xmr_price", "build"}

\* C1: whatever the pool-distribution call yields, fetch_all goes on with a
\* non-empty pool distribution and the score is computed without raising.
C1_PoolDistributionNeverEmpty ==
    /\ InFetchAllAfterPools => pool_distribution # << >>
    /\ exc # "ValueError"

ScoreReturned == pc \in {"score_returned", "score_shown"}

\* C2: for every seed, every orphan count >= 0 and every non-empty pool
\* distribution, calculate_withholding_score returns a value in [0, 1].
C2_ScoreInUnitInterval ==
    ScoreReturned /\ orphaned_blocks >= 0 => 0 <= result /\ result <= ScoreScale

\* a single pool at share 1.0: the concentration component is 3.5 and the
\* score is clamped to 1
C2_Witness ==
    /\ ScoreReturned
    /\ orphaned_blocks >= 0
    /\ Len(pool_distribution) = 1
    /\ pool_distribution[1].share = 100
    /\ concentration_score(pool_distribution) = 35000
    /\ score_unclamped(seed, orphaned_blocks, pool_distribution) > ScoreScale
    /\ result = ScoreScale

\* C3: in watch mode a failure to open or write the output file does not
\* end the loop.
C3_WriteFailureKeepsWatching ==
    watch => ~(pc = "raised" /\ exc = "OSError")

\* C4: at every point of a save, the file at the output path holds one
\* complete serialization, the previous one or the new one.
C4_ReaderSeesCompleteFile ==
    pc = "write" => CompleteFile(file, haskell)

\* C5: a KeyboardInterrupt at any point of a watch tick ends the loop, with
\* no further step of the tick, and leaves a complete serialized snapshot in
\* the output file.
C5_InterruptStopsCleanly ==
    /\ watch /\ last.kind = "interrupt" => pc = "stopped"
    /\ watch /\ pc = "stopped" => CompleteFile(file, haskell)

Failed(src) == last.src = src /\ last.kind \in FailKinds

\* C6: when the one call of fetch_orphaned_blocks, fetch_pool_distribution,
\* fetch_latest_reorg or fetch_xmr_price fails (timeout, transport error,
\* non-200 status, malformed body), the method raises nothing and returns
\* its last-resort constant: 0, the 5-entry baseline, 0 and 167.0.
C6_FailureYieldsLastResort ==
    /\ Failed("pool_distribution") =>
          /\ pc = "fetch_orphaned_blocks" /\ exc = "none"
          /\ pool_distribution = BASELINE /\ Len(BASELINE) = 5
    /\ Failed("orphaned_blocks") =>
          /\ pc = "fetch_latest_reorg" /\ exc = "none"
          /\ orphaned_blocks = 0
    /\ Failed("latest_reorg") =>
          /\ pc = "fetch_xmr_price" /\ exc = "none"
          /\ last_reorg_depth = 0
    /\ Failed("xmr_price") =>
          \/ pc = "build" /\ exc = "none" /\ xmr_price = DEFAULT_PRICE
          \/ pc = "display" /\ exc = "none" /\ data.xmr_price = DEFAULT_PRICE
          \/ pc = "raised" /\ exc = "ValueError"

C6_Witness ==
    /\ pc = "build"
    /\ Failed("xmr_price")
    /\ last.all_failed
    /\ pool_distribution = BASELINE
    /\ orphaned_blocks = 0
    /\ last_reorg_depth = 0
    /\ xmr_price = DEFAULT_PRICE

AllSourcesFailed == pc = "display" /\ last.all_failed

DefaultsEverywhere ==
    /\ data.network_hashrate = DEFAULT_HASHRATE
    /\ data.pool_distribution = BASELINE
    /\ data.orphaned_blocks = 0
    /\ data.last_reorg_depth = 0
    /\ data.xmr_price = DEFAULT_PRICE
    /\ data.qubic_hashrate = DEFAULT_HASHRATE * 15

C8_PrimaryFailureFallsThrough ==
    last.src = "network_hashrate" /\ last.kind # "interrupt" =>
        IF last.kind = "ok" /\ last.has
        THEN pc = "fetch_pool_distribution"
        ELSE pc = "fetch_network_hashrate_fallback"

\* C9: in every snapshot fetch_all returns the numeric fields are >= 0 and
\* the score is in [0, 1].
C9_SnapshotFieldsInRange ==
    pc = "display" =>
        /\ data.network_hashrate >= 0
        /\ data.qubic_hashrate >= 0
        /\ data.orphaned_blocks >= 0
        /\ data.last_reorg_depth >= 0
        /\ data.xmr_price >= 0
        /\ data.block_withholding_score >= 0
        /\ data.block_withholding_score <= ScoreScale

AttackScenario ==
    /\ pc = "score_shown"
    /\ orphaned_blocks = 18
    /\ Len(pool_distribution) = 1
    /\ pool_distribution[1].share = 45
    /\ seed = 1069

\* C10 as stated: 18 orphans, one pool at 0.45 and seed 1069 score 0.8619,
\* displayed as HIGH.
C10_ScenarioIsHigh ==
    AttackScenario => result = 8619 /\ tier = "HIGH"

\* C10 amended: 18 orphans, one pool at 0.45 and seed 1069 score
\* 0.7*0.9 + 0.3*0.75 + 0.0069 = 0.8619, which is above 0.85 and displayed
\* as CRITICAL.
C10_ScenarioIsCritical ==
    AttackScenario =>
        /\ orphan_score(orphaned_blocks) = 9000
        /\ concentration_score(pool_distribution) = 7500
        /\ combined(orphaned_blocks, pool_distribution) = 8550
        /\ seed_offset(seed) = 69
        /\ result = 8619
        /\ tier = "CRITICAL"

C10_Witness == AttackScenario /\ result = 8619 /\ tier = "CRITICAL"
Tiers == {"CRITICAL", "HIGH", "MODERATE", "LOW"}

StrictTier(score, t) ==
    /\ t \in Tiers
    /\ t = "CRITICAL" <=> score > 8500
    /\ t = "HIGH"     <=> 6000 < score /\ score <= 8500
    /\ t = "MODERATE" <=> 3000 < score /\ score <= 6000
    /\ t = "LOW"      <=> score <= 3000

\* C11: every watch tick whose display runs to its end has printed exactly
\* one threat tier, which depends on the score alone: CRITICAL iff
\* score > 0.85, HIGH iff 0.6 < score <= 0.85, MODERATE iff
\* 0.3 < score <= 0.6, LOW iff score <= 0.3; the same holds of the
\* assessment applied to any score the scorer returns.
C11_TierByStrictThresholds ==
    /\ watch /\ pc \in {"open", "write", "sleep"} =>
           StrictTier(data.block_withholding_score, tier)
    /\ pc = "score_shown" => StrictTier(result, tier)

\* the boundary score 0.85 is displayed as HIGH
C11_Witness == pc = "score_shown" /\ result = 8500 /\ tier = "HIGH"

Builds == Cardinality({i \in DOMAIN steps : steps[i].step = "build"})

\* C12: in single-shot mode a failure to write the output file leaves main
\* as an OSError, after one build and with nothing left to run, and the
\* 'Data saved' line is printed only when the file holds the snapshot.
C12_SingleShotWriteFailureIsFatal ==
    /\ ~watch /\ exc = "OSError" =>
           pc = "raised" /\ ~saved /\ Builds = 1 /\ tick = 1 /\ ~ENABLED Next
    /\ ~watch /\ saved => file = Serialize(data, haskell) /\ Builds = 1

C12_Witness ==
    /\ ~watch /\ exc = "OSError" /\ pc = "raised" /\ ~saved
    /\ file # Serialize(data, haskell)

SameCall(a, b) ==
    a.orphaned = b.orphaned /\ a.pool_dist = b.pool_dist

\* C13: calls of calculate_withholding_score on one client with the same
\* orphan count and pool distribution return the same value, whatever calls
\* came in between, and no call changes the client's seed.
C13_ScoreIsDeterministic ==
    /\ \A i \in DOMAIN memo : memo[i].seed = seed
    /\ \A i, j \in DOMAIN memo :
           SameCall(memo[i], memo[j]) => memo[i].result = memo[j].result

C13_Witness ==
    /\ Len(memo) = 3
    /\ SameCall(memo[1], memo[3])
    /\ ~SameCall(memo[1], memo[2])
    /\ memo[1].result = memo[3].result
    /\ memo[1].result # memo[2].result

Cycle == << "build", "display", "persist", "sleep" >>

\* C14: the steps of the watch loop come in the order build (after five or
\* six network calls), display, persist, sleep, each once per tick and each
\* on the snapshot built in that tick; the file persisted is that snapshot;
\* the next tick's fetches start only after the sleep.
C14_TickOrder ==
    watch =>
        /\ \A i \in DOMAIN steps :
               /\ steps[i].step = Cycle[((i - 1) % 4) + 1]
               /\ steps[i].stamp = ((i - 1) \div 4) + 1
        /\ Len(steps) \div 4 = tick - 1
        /\ pc \in {"fetch_network_hashrate", "fetch_network_hashrate_fallback",
                   "fetch_pool_distribution", "fetch_orphaned_blocks",
                   "fetch_latest_reorg", "fetch_xmr_price", "build"} =>
               Len(steps) = 4 * (tick - 1)
        /\ pc = "display" => Len(steps) % 4 = 1 /\ calls \in {5, 6}
        /\ pc \in {"open", "write"} => Len(steps) % 4 = 2
        /\ pc = "sleep" =>
               /\ Len(steps) % 4 = 3
               /\ data.timestamp = tick
               /\ file = Serialize(data, haskell)

C14_Witness ==
    /\ watch /\ tick = 2 /\ pc = "sleep"
    /\ Len(steps) = 7
    /\ file = Serialize(data, haskell)

\* C15: a fetch_all invocation makes at most six network calls, one or two
\* for the network hashrate and one for each of the other four kinds, and
\* then reaches the end of fetch_all even when every call failed.
C15_AtMostSixCalls ==
    /\ calls <= 6
    /\ pc = "fetch_network_hashrate" => calls = 0
    /\ pc = "fetch_network_hashrate_fallback" => calls = 1
    /\ pc = "fetch_pool_distribution" =>
           /\ calls \in {1, 2}
           /\ calls = 2 <=> last.src = "network_hashrate_fallback"
    /\ pc = "fetch_orphaned_blocks" =>
           calls \in {2, 3} /\ last.src = "pool_distribution"
    /\ pc = "fetch_latest_reorg" =>
           calls \in {3, 4} /\ last.src = "orphaned_blocks"
    /\ pc = "fetch_xmr_price" =>
           calls \in {4, 5} /\ last.src = "latest_reorg"
    /\ pc \in {"build", "display"} =>
           calls \in {5, 6} /\ last.src = "xmr_price"

C15_Witness ==
    pc = "display" /\ calls = 6 /\ last.all_failed /\ last.kind = "timeout"

FirstQubicShare(pd) ==
    LET I == {i \in 1..Len(pd) : pd[i].name \in {"Qubic", "QubicPool"}}
    IN  IF I = {} THEN 0
        ELSE pd[CHOOSE i \in I : \A j \in I : i <= j].share

\* C16: in every snapshot fetch_all returns, qubic_hashrate is the network
\* hashrate times the share of the first entry, in source order, whose name
\* contains 'Qubic' in that case, and 0 when there is none.
C16_QubicHashrateFromFirstMatch ==
    pc = "display" =>
        data.qubic_hashrate =
            data.network_hashrate * FirstQubicShare(data.pool_distribution)

\* 'qubic' comes first and is passed over
C16_Witness ==
    /\ pc = "display"
    /\ Len(data.pool_distribution) = 2
    /\ data.pool_distribution[1].name = "qubic"
    /\ data.pool_distribution[2].name = "QubicPool"
    /\ data.network_hashrate = 600
    /\ data.qubic_hashrate = 6000

\* C17: the orphan component is exactly 1.0 for every count >= 20, which
\* makes the score at least 0.7, and count/20, below 1.0, for 0..19.
C17_OrphanComponentSaturates ==
    ScoreReturned =>
        /\ orphaned_blocks >= 20 =>
               /\ orphan_score(orphaned_blocks) = ScoreScale
               /\ result >= 7000
        /\ 0 <= orphaned_blocks /\ orphaned_blocks <= 19 =>
               /\ orphan_score(orphaned_blocks) * 20 = orphaned_blocks * ScoreScale
               /\ orphan_score(orphaned_blocks) < ScoreScale

C17_Witness ==
    ScoreReturned /\ orphaned_blocks = 40 /\ result = 7000

\* C18: in watch mode the display raises for no snapshot, so every snapshot
\* fetch_all returns is persisted in its tick.
C18_DisplayNeverRaises ==
    watch => ~(pc = "raised" /\ exc = "ZeroDivisionError")

\* C19: fetch_network_hashrate returns the 'hashrate_ghs' value of a
\* successful primary response or 4.97; when it went to the fallback it
\* returns 4.97 whatever the fallback call did.
C19_HashrateIsPrimaryValueOrDefault ==
    pc = "fetch_pool_distribution" =>
        /\ \/ /\ last.src = "network_hashrate" /\ last.kind = "ok" /\ last.has
              /\ network_hashrate \in HashrateValues(scope)
           \/ network_hashrate = DEFAULT_HASHRATE
        /\ last.src = "network_hashrate_fallback" =>
               network_hashrate = DEFAULT_HASHRATE
        /\ last.src = "network_hashrate" => last.kind = "ok"

C19_Witness ==
    /\ pc = "fetch_pool_distribution"
    /\ last.src = "network_hashrate_fallback"
    /\ last.kind = "ok"
    /\ network_hashrate = DEFAULT_HASHRATE

-----------------------------------------------------------------------------
(* The watch loop and the scorer's direct callers together: the threat     *)
(* assessment as the display prints it, and over every score the scorer    *)
(* returns.                                                                *)

TierSpec == (Init \/ ScoreInit) /\ [][Next \/ ScoreNext]_vars

====
